---- MODULE Spec2Model ----
(***************************************************************************)
(* MarketView frontend: the Reports page (report generation with the       *)
(* offline mock fallback) and the data pages built on useAutoRefresh       *)
(* (Dashboard, RedditFeed, FixedIncomeTab).  One page is mounted at a      *)
(* time (Layout renders the routed page in its Outlet): SpecReports is the *)
(* Reports page, SpecData a data page against a backend that answers as it *)
(* pleases, SpecAnswered a data page against a backend that answers every  *)
(* fetch alike, SpecMacro the Dashboard while the CPI reading changes,     *)
(* SpecProviders the provider controls of the Reports page, SpecTab a      *)
(* market tab through the whole life of its useAutoRefresh (overlapping    *)
(* fetches, timer, unmount), FairSpecTab the same tab with every request   *)
(* answered in the end, SpecBackend the Dashboard while the backend's      *)
(* answers change between refreshes, SpecList the list of past reports of  *)
(* the Reports page with the backend's store behind it, and SpecHealth the *)
(* Health page.  The variables of a page that is not mounted stay put.     *)
(***************************************************************************)
EXTENDS Integers, Sequences, FiniteSets, Bags, TLC

\* ------------------------------------------------------------------ bounds
\* The wall clock is read to the second by toLocaleString(); it runs 0..MaxClock.
MaxClock == 1
\* listReports requests in flight at once (the load on mount and one per
\* successful generation).
MaxListLoads == 1
\* Fetches of the mounted data page in flight at once.
MaxInFlight == 1

\* ------------------------------------------------------------ plain values
\* null / undefined of the source, as a record so that it compares with records.
Null == [kind |-> "null"]
\* null of a string-typed state (a provider id, a model name).
NullId == "null"

\* A number and a string of a response body or of a nullable state.
Num(n) == [num |-> n]
Str(s) == [str |-> s]
\* The exception of a method call on undefined or null.
TypeError == [kind |-> "TypeError"]

Levels == {1, 2, 3}
Formats == {"markdown", "json", "html", "pdf"}

levelLabels == [l \in Levels |->
                  CASE l = 1 -> "Executive" [] l = 2 -> "Standard" [] OTHER -> "Deep Dive"]

\* RefreshContext: the interval when nothing valid is stored, in seconds.
DefaultInterval == 300
\* REFRESH_OPTIONS: 1 min, 3 min, 5 min, Off.
RefreshIntervals == {60, 180, 300, 0}

\* axios timeouts of generateReport, in milliseconds.
LLMTimeout == 120000
DefaultTimeout == 30000

\* ------------------------------------------------ Reports: generateMockReport
\* The "## " headings of each template literal, in the order of the text.
base == <<"Market Pulse", "Key Metrics", "Macro Overview">>
sentimentBlock == <<"Sentiment Analysis">>
standard == <<"Asset Class Breakdown">>
deep == <<"Technical Levels", "Volatility Assessment",
          "Correlation Matrix Highlights", "Forward Look">>

\* The report text as its parts: the title line (level label), the
\* "> Generated <timestamp> (offline mock)" line, the sections, the footer.
MockText(lvl, timestamp, sections, footer) ==
    [kind |-> "mock", title |-> levelLabels[lvl], generated |-> timestamp,
     sections |-> sections, footer |-> footer]

\* Variants of generateMockReport with a slip in them.
generateMockReport_SentimentAtL1(lvl, timestamp) ==
    IF lvl = 1
    THEN MockText(lvl, timestamp, base \o sentimentBlock, "End of Executive Summary")
    ELSE IF lvl = 2
         THEN MockText(lvl, timestamp, base \o sentimentBlock \o standard,
                       "End of Standard Report")
         ELSE MockText(lvl, timestamp, base \o sentimentBlock \o standard \o deep,
                       "End of Deep Dive Report")

generateMockReport_StandardFirst(lvl, timestamp) ==
    IF lvl = 1 THEN MockText(lvl, timestamp, base, "End of Executive Summary")
    ELSE IF lvl = 2
         THEN MockText(lvl, timestamp, base \o standard \o sentimentBlock,
                       "End of Standard Report")
         ELSE MockText(lvl, timestamp, base \o sentimentBlock \o standard \o deep,
                       "End of Deep Dive Report")

generateMockReport_DatedFooter(lvl, timestamp) ==
    IF lvl = 1 THEN MockText(lvl, timestamp, base, <<"End of Executive Summary", timestamp>>)
    ELSE IF lvl = 2
         THEN MockText(lvl, timestamp, base \o sentimentBlock \o standard,
                       "End of Standard Report")
         ELSE MockText(lvl, timestamp, base \o sentimentBlock \o standard \o deep,
                       "End of Deep Dive Report")

generateMockReport(lvl, timestamp) ==
    IF lvl = 1 THEN MockText(lvl, timestamp, base, "End of Executive Summary")
    ELSE IF lvl = 2
         THEN MockText(lvl, timestamp, base \o sentimentBlock \o standard,
                       "End of Standard Report")
         ELSE MockText(lvl, timestamp, base \o sentimentBlock \o standard \o deep,
                       "End of Deep Dive Report")

\* ------------------------------------------- Reports: the server's builder
\* The backend's report builder is not part of the sources; its section
\* rules are those of the specification (4.5).
ServerOrder == <<"Market Pulse", "Key Metrics", "Macro Overview", "Asset Class Breakdown",
                 "Technical Levels", "Sentiment Analysis", "Correlation Matrix Highlights",
                 "Volatility Assessment", "Forward Look">>

ServerIncludes(req, s) ==
    CASE s \in {"Market Pulse", "Key Metrics"} -> TRUE
      [] s \in {"Macro Overview", "Asset Class Breakdown"} -> req.level >= 2
      [] s = "Technical Levels" -> req.level = 3 \/ (req.level = 2 /\ req.include_technicals)
      [] s = "Sentiment Analysis" -> req.level = 3 \/ (req.level = 2 /\ req.include_sentiment)
      [] s = "Correlation Matrix Highlights" ->
             req.level = 3 \/ (req.level = 2 /\ req.include_correlations)
      [] OTHER -> req.level = 3

ServerReport(req) ==
    [kind |-> "server", title |-> levelLabels[req.level], format |-> req.format,
     sections |-> SelectSeq(ServerOrder, LAMBDA s : ServerIncludes(req, s))]

\* What POST /api/v1/reports/generate can answer: a body with the report, a
\* body without content, an empty body; or the request fails or times out.
GenerateResponses(req) ==
    { [outcome |-> "ok", data |-> [kind |-> "body", content |-> ServerReport(req)]],
      [outcome |-> "ok", data |-> [kind |-> "body", content |-> Null]],
      [outcome |-> "ok", data |-> Null],
      [outcome |-> "error", data |-> Null],
      [outcome |-> "timeout", data |-> Null] }

\* ---------------------------------------------------------------- providers
\* GET /api/v1/reports/llm-providers: one available provider and one that is not.
ProviderList ==
    << [id |-> "openai", models |-> {"gpt", "gpt-mini"}, default_model |-> "gpt",
        available |-> TRUE],
       [id |-> "ollama", models |-> {"llama"}, default_model |-> "llama",
        available |-> FALSE] >>

VARIABLES
    route,                \* the page Layout's Outlet shows
    now,                  \* wall clock, seconds
    \* Reports page
    level, format, includeTechnicals, includeSentiment, includeCorrelations,
    generating, generatedContent, offline,
    llmProviders, selectedLLMProvider, selectedLLMModel,
    loadingReports,
    request,              \* the config of the generate request in flight
    listLoads,            \* listReports requests in flight
    providerLoad,         \* the getLLMProviders request is in flight
    \* DataSourceContext and RefreshContext
    source, interval,
    \* useAutoRefresh of the mounted page
    lastUpdated, refreshing,
    inflight,             \* bag of the fetches awaiting their Promise.all
    answers,              \* what Promise.all handed to the fetch that completed last
    \* the useState values of each data page, by name; Null while not mounted
    Dashboard, RedditFeed, FixedIncomeTab,
    \* the Equities tab of the Market Data page and its useAutoRefresh
    EquitiesTab,
    mountedRef,           \* mountedRef.current
    timers,               \* the window timers that are armed
    timerIds,             \* how many timers window.setInterval has handed out
    issued,               \* how many getEquities requests the tab has issued
    \* the report list of the Reports page and the backend's store behind it
    reports,              \* the useState list of ReportSummary
    store,                \* the reports the backend holds, newest first
    loads,                \* bag of the listReports requests in flight
    deletes,              \* bag of the deleteReport requests in flight
    removed,              \* history: the ids a successful handleDelete took off the list
    \* the Health page
    Health,               \* its useState values; Null while not mounted
    checks,               \* bag of the fetchHealth calls awaiting a response
    lastCheck             \* history: the requests of the fetchHealth call that ended last

reportsVars == <<level, format, includeTechnicals, includeSentiment, includeCorrelations,
                 generating, generatedContent, offline, llmProviders, selectedLLMProvider,
                 selectedLLMModel, loadingReports, request, listLoads, providerLoad>>

hookVars == <<lastUpdated, refreshing>>
pageVars == <<Dashboard, RedditFeed, FixedIncomeTab>>
tabVars == <<EquitiesTab, mountedRef, timers, timerIds, issued>>
dataVars == <<source, interval, hookVars, inflight, answers, pageVars, tabVars>>

listVars == <<reports, store, loads, deletes, removed>>
healthVars == <<Health, checks, lastCheck>>

vars == <<route, now, reportsVars, dataVars, listVars, healthVars>>

\* The Reports page shows an empty list and nothing of it is in flight.
ListIdle ==
    /\ reports = <<>> /\ store = [created |-> 0, reports |-> <<>>]
    /\ loads = EmptyBag /\ deletes = EmptyBag /\ removed = {}
\* The Health page is not mounted.
HealthUnmounted == Health = Null /\ checks = EmptyBag /\ lastCheck = Null

\* ------------------------------------------------------------- Reports page
InitReports ==
    /\ level = 1 /\ format = "markdown"
    /\ includeTechnicals = FALSE /\ includeSentiment = FALSE /\ includeCorrelations = FALSE
    /\ generating = FALSE /\ generatedContent = Null /\ offline = FALSE
    /\ llmProviders = <<>> /\ selectedLLMProvider = NullId /\ selectedLLMModel = NullId
    /\ loadingReports = TRUE
    /\ request = Null
    /\ listLoads = 1          \* useEffect: loadReports()
    /\ providerLoad = TRUE    \* useEffect: loadLLMProviders()

\* The level buttons, the format select, the three checkboxes (rendered for L2+).
SetLevel(l) ==
    /\ route = "reports"
    /\ level' = l
    /\ UNCHANGED <<dataVars, listVars, healthVars, route, now,
                   format, includeTechnicals, includeSentiment,
                   includeCorrelations, generating, generatedContent, offline, llmProviders,
                   selectedLLMProvider, selectedLLMModel, loadingReports, request, listLoads,
                   providerLoad>>

SetFormat(f) ==
    /\ route = "reports"
    /\ format' = f
    /\ UNCHANGED <<dataVars, listVars, healthVars, route, now,
                   level, includeTechnicals, includeSentiment,
                   includeCorrelations, generating, generatedContent, offline, llmProviders,
                   selectedLLMProvider, selectedLLMModel, loadingReports, request, listLoads,
                   providerLoad>>

SetInclude(which, checked) ==
    /\ route = "reports"
    /\ level >= 2
    /\ includeTechnicals' = IF which = "Technicals" THEN checked ELSE includeTechnicals
    /\ includeSentiment' = IF which = "Sentiment" THEN checked ELSE includeSentiment
    /\ includeCorrelations' = IF which = "Correlations" THEN checked ELSE includeCorrelations
    /\ UNCHANGED <<dataVars, listVars, healthVars, route, now,
                   level, format, generating, generatedContent, offline,
                   llmProviders, selectedLLMProvider, selectedLLMModel, loadingReports,
                   request, listLoads, providerLoad>>

\* llmProviders.find((p) => p.id === providerId)?.default_model ?? null
DefaultModelOf(providerId) ==
    LET hits == SelectSeq(llmProviders, LAMBDA p : p.id = providerId)
    IN  IF hits = <<>> THEN NullId ELSE hits[1].default_model

\* The Rule-based button calls selectProvider(null); a provider's button calls
\* selectProvider(p.id) only when p.available.
selectProvider_NoToggle(providerId) ==
    /\ route = "reports"
    /\ \/ providerId = NullId
       \/ \E i \in 1..Len(llmProviders) :
             llmProviders[i].id = providerId /\ llmProviders[i].available
    /\ selectedLLMProvider' = providerId /\ selectedLLMModel' = DefaultModelOf(providerId)
    /\ UNCHANGED <<dataVars, listVars, healthVars, route, now,
                   level, format, includeTechnicals, includeSentiment,
                   includeCorrelations, generating, generatedContent, offline, llmProviders,
                   loadingReports, request, listLoads, providerLoad>>

selectProvider(providerId) ==
    /\ route = "reports"
    /\ \/ providerId = NullId
       \/ \E i \in 1..Len(llmProviders) :
             llmProviders[i].id = providerId /\ llmProviders[i].available
    /\ IF providerId = selectedLLMProvider
       THEN selectedLLMProvider' = NullId /\ selectedLLMModel' = NullId
       ELSE selectedLLMProvider' = providerId /\ selectedLLMModel' = DefaultModelOf(providerId)
    /\ UNCHANGED <<dataVars, listVars, healthVars, route, now,
                   level, format, includeTechnicals, includeSentiment,
                   includeCorrelations, generating, generatedContent, offline, llmProviders,
                   loadingReports, request, listLoads, providerLoad>>

\* The model select, rendered while a provider is selected, with the models
\* of that provider as its options.
SetModel(model) ==
    /\ route = "reports"
    /\ selectedLLMProvider # NullId
    /\ \E i \in 1..Len(llmProviders) :
          llmProviders[i].id = selectedLLMProvider /\ model \in llmProviders[i].models
    /\ selectedLLMModel' = model
    /\ UNCHANGED <<dataVars, listVars, healthVars, route, now,
                   level, format, includeTechnicals, includeSentiment,
                   includeCorrelations, generating, generatedContent, offline, llmProviders,
                   selectedLLMProvider, loadingReports, request, listLoads, providerLoad>>

\* The request handleGenerate builds from the state of the render it runs in,
\* with the timeout generateReport chooses for it.
ReportRequest ==
    [level |-> level, format |-> format,
     include_technicals |-> includeTechnicals,
     include_sentiment |-> includeSentiment,
     include_correlations |-> includeCorrelations,
     llm_provider |-> selectedLLMProvider,
     llm_model |-> selectedLLMModel,
     timeout |-> IF selectedLLMProvider # NullId THEN LLMTimeout ELSE DefaultTimeout]

\* setOffline(false), the second statement of handleGenerate.
OfflineAtStart_Kept == offline
OfflineAtStart == FALSE

\* handleGenerate up to its await: the Generate button is disabled while generating.
HandleGenerate ==
    /\ route = "reports"
    /\ ~generating
    /\ generating' = TRUE
    /\ offline' = OfflineAtStart
    /\ generatedContent' = Null
    /\ request' = ReportRequest
    /\ UNCHANGED <<dataVars, listVars, healthVars, route, now,
                   level, format, includeTechnicals, includeSentiment,
                   includeCorrelations, llmProviders, selectedLLMProvider, selectedLLMModel,
                   loadingReports, listLoads, providerLoad>>

\* result.content without the ?? default.
ContentOrDefault_NoDefault(data) == data.content

\* result.content ?? "Report generated successfully."
ContentOrDefault(data) ==
    IF data.content = Null THEN [kind |-> "text", text |-> "Report generated successfully."]
    ELSE data.content

\* The try block after the await: reading result.content throws on an empty body.
TryThrows(resp) == resp.outcome # "ok" \/ resp.data = Null

\* The catch block: the local mock report of the level the closure holds.
CatchContent(req, timestamp) == generateMockReport(req.level, timestamp)
CatchOffline == TRUE

\* handleGenerate from the await on: try, catch, finally.
GenerateResumed(resp) ==
    /\ route = "reports"
    /\ generating
    /\ IF TryThrows(resp)
       THEN /\ generatedContent' = CatchContent(request, now)
            /\ offline' = CatchOffline
            /\ listLoads' = listLoads
       ELSE /\ listLoads < MaxListLoads
            /\ generatedContent' = ContentOrDefault(resp.data)
            /\ offline' = offline
            /\ listLoads' = listLoads + 1      \* loadReports()
    /\ generating' = FALSE
    /\ request' = Null
    /\ UNCHANGED <<dataVars, healthVars, route, now,
                   level, format, includeTechnicals, includeSentiment,
                   includeCorrelations, llmProviders, selectedLLMProvider, selectedLLMModel,
                   loadingReports, providerLoad>>

\* The same where the list of past reports is counted only, by listLoads.
GenerateSettled(resp) == GenerateResumed(resp) /\ UNCHANGED listVars

\* loadReports from its await on (the list itself is not modelled here).
LoadReportsSettled ==
    /\ route = "reports"
    /\ listLoads > 0
    /\ listLoads' = listLoads - 1
    /\ loadingReports' = FALSE
    /\ UNCHANGED <<dataVars, listVars, healthVars, route, now,
                   level, format, includeTechnicals, includeSentiment,
                   includeCorrelations, generating, generatedContent, offline, llmProviders,
                   selectedLLMProvider, selectedLLMModel, request, providerLoad>>

\* loadLLMProviders from its await on: data.providers ?? [] on success.
LoadLLMProvidersSettled(ok) ==
    /\ route = "reports"
    /\ providerLoad
    /\ providerLoad' = FALSE
    /\ llmProviders' = IF ok THEN ProviderList ELSE llmProviders
    /\ UNCHANGED <<dataVars, listVars, healthVars, route, now,
                   level, format, includeTechnicals, includeSentiment,
                   includeCorrelations, generating, generatedContent, offline,
                   selectedLLMProvider, selectedLLMModel, loadingReports, request, listLoads>>

\* A second passes.
Tick ==
    /\ now < MaxClock
    /\ now' = now + 1
    /\ UNCHANGED <<route, reportsVars, dataVars, listVars, healthVars>>

NextReports ==
    \/ \E l \in Levels : SetLevel(l)
    \/ \E f \in Formats : SetFormat(f)
    \/ \E w \in {"Technicals", "Sentiment", "Correlations"}, c \in BOOLEAN : SetInclude(w, c)
    \/ \E p \in {NullId} \cup {ProviderList[i].id : i \in 1..Len(ProviderList)} :
          selectProvider(p)
    \/ HandleGenerate
    \/ generating /\ \E resp \in GenerateResponses(request) : GenerateSettled(resp)
    \/ LoadReportsSettled
    \/ \E ok \in BOOLEAN : LoadLLMProvidersSettled(ok)
    \/ Tick

\* The data pages are not mounted while the Reports page is shown.
DataUnmounted ==
    /\ source = "live" /\ interval = DefaultInterval
    /\ lastUpdated = Null /\ refreshing = FALSE
    /\ inflight = EmptyBag /\ answers = Null
    /\ Dashboard = Null /\ RedditFeed = Null /\ FixedIncomeTab = Null
    /\ EquitiesTab = Null /\ mountedRef = FALSE
    /\ timers = {} /\ timerIds = 0 /\ issued = 0

InitReportsPage ==
    route = "reports" /\ now = 0 /\ InitReports /\ ListIdle /\ DataUnmounted /\ HealthUnmounted

SpecReports == InitReportsPage /\ [][NextReports]_vars

\* ===================================================== Reports: the claims
IsReport(c) == c.kind \in {"mock", "server"}
HasSection(c, s) == \E i \in 1..Len(c.sections) : c.sections[i] = s
OptionalSections == {"Technical Levels", "Sentiment Analysis", "Correlation Matrix Highlights"}

\* The generate request in flight is answered in this step.
Settles == request # Null /\ request' = Null

RECURSIVE IsSubseq(_, _)
IsSubseq(a, b) ==
    IF a = <<>> THEN TRUE
    ELSE IF b = <<>> THEN FALSE
    ELSE IF Head(a) = Head(b) THEN IsSubseq(Tail(a), Tail(b))
    ELSE IsSubseq(a, Tail(b))

\* The report the builder that made c would make for request r at this moment.
SameBuilder(c, r, timestamp) ==
    IF c.kind = "mock" THEN CatchContent(r, timestamp) ELSE ServerReport(r)

\* C1: whatever the three inclusion flags of the request, the report delivered
\* for a level-1 request has no technicals, sentiment or correlation section,
\* and the report delivered for a level-3 request has all three.
C1_LevelGatesOptionalSections ==
    [][ (Settles /\ IsReport(generatedContent')) =>
          /\ request.level = 1 =>
                \A s \in OptionalSections : ~HasSection(generatedContent', s)
          /\ request.level = 3 =>
                \A s \in OptionalSections : HasSection(generatedContent', s) ]_vars

\* A level-3 report is on screen although the form has the three flags off.
C1_Witness ==
    /\ IsReport(generatedContent) /\ generatedContent.title = levelLabels[3]
    /\ level = 3 /\ ~includeTechnicals /\ ~includeSentiment /\ ~includeCorrelations
    /\ \A s \in OptionalSections : HasSection(generatedContent, s)

\* C2: in the report delivered for a level-2 request, each optional section
\* (technicals, sentiment, correlations) is present exactly when its flag is
\* set in the request.
C2_Level2HonoursFlags ==
    [][ (Settles /\ IsReport(generatedContent') /\ request.level = 2) =>
          /\ HasSection(generatedContent', "Technical Levels") <=> request.include_technicals
          /\ HasSection(generatedContent', "Sentiment Analysis") <=> request.include_sentiment
          /\ HasSection(generatedContent', "Correlation Matrix Highlights")
                <=> request.include_correlations ]_vars

\* C3: sections are cumulative and in a fixed order: the sections of the report
\* delivered for a level-n request (n < 3) are, in the same order, among those
\* the same builder makes for the same request at level n+1.
C3_SectionsCumulativeInOrder ==
    [][ (Settles /\ IsReport(generatedContent') /\ request.level < 3) =>
          IsSubseq(generatedContent'.sections,
                   SameBuilder(generatedContent',
                               [request EXCEPT !.level = request.level + 1],
                               now).sections) ]_vars

\* A level-2 mock report is on screen.
C3_Witness ==
    /\ generatedContent.kind = "mock" /\ generatedContent.title = levelLabels[2]
    /\ Len(generatedContent.sections) = 5

\* The page shows a level-1 mock report and the form still asks for level 1,
\* markdown: the request a second generation would send is the first one's.
ShowsLevel1Mock ==
    /\ generatedContent.kind = "mock" /\ generatedContent.title = levelLabels[1]
    /\ level = 1 /\ format = "markdown"

\* C4 (as claimed): a second generation of a level-1 markdown mock report, at
\* any later moment, yields the content of the first, byte for byte.
C4_ByteIdentical ==
    ShowsLevel1Mock => CatchContent(ReportRequest, now) = generatedContent

\* C4 (amended): the second generation differs from the first at most in the
\* "Generated <timestamp>" line, and not at all within the same clock second.
C4_IdenticalButTimestamp ==
    ShowsLevel1Mock =>
        [CatchContent(ReportRequest, now) EXCEPT !.generated = generatedContent.generated]
            = generatedContent

\* The clock has moved on since the level-1 mock report on screen was built.
C4_Witness == ShowsLevel1Mock /\ generatedContent.generated # now

\* C5: every handleGenerate invocation, whether the request succeeds, fails
\* or times out, with or without a provider, ends with generating = false and
\* a non-null generatedContent.
C5_AlwaysDelivers ==
    [][ Settles => (~generating' /\ generatedContent' # Null) ]_vars

\* A generation with a provider selected has failed and the mock is shown.
C5_Witness ==
    /\ ~generating /\ generatedContent # Null /\ offline
    /\ selectedLLMProvider # NullId

\* C6: offline is true exactly when the displayed content was produced by the
\* local fallback generateMockReport rather than returned by the server.
C6_OfflineIffFallback ==
    offline <=> generatedContent.kind = "mock"

\* A server report is shown, then: offline is off with content on screen.
C6_Witness == ~offline /\ generatedContent.kind = "server" /\ ~generating


\* ================================================================ data pages
\* Dashboard, RedditFeed and FixedIncomeTab fetch through useAutoRefresh.
\* Prices are whole numbers; yields, rates and percentages are in hundredths.
DataPages == {"dashboard", "reddit", "fixed-income"}
Sources == {"live", "mock"}

\* ------------------------------------------------------------ api/client.ts
Get(url, params) == [url |-> url, params |-> params]
getHealth == Get("/health", Null)
getFredInflation == Get("/api/v1/data/fred/inflation", Null)
getFredRates == Get("/api/v1/data/fred/rates", Null)
getFredCredit == Get("/api/v1/data/fred/credit", Null)
getFredYieldCurve == Get("/api/v1/data/fred/yield-curve", Null)
getMarketSnapshot_Default(s) == Get("/api/v1/data/market/snapshot", [source |-> "live"])
getMarketSnapshot(s) == Get("/api/v1/data/market/snapshot", [source |-> s])
getRedditSentiment(s) == Get("/api/v1/reddit/sentiment", [source |-> s])
getRedditPosts(s) == Get("/api/v1/reddit/posts", [source |-> s])
getRedditTrending(s) == Get("/api/v1/reddit/trending", [source |-> s])

\* The requests one fetch of the page hands to Promise.all; s is the source
\* its useCallback closure holds.
fetchCalls(page, s) ==
    CASE page = "dashboard" ->
           {getHealth, getMarketSnapshot(s), getFredYieldCurve, getFredRates, getFredInflation}
      [] page = "reddit" -> {getRedditSentiment(s), getRedditPosts(s), getRedditTrending(s)}
      [] OTHER -> {getFredRates, getFredYieldCurve, getFredCredit}

\* Pages whose useAutoRefresh lists the source among its deps.
RefetchesOnSource(page) == page \in {"dashboard", "reddit"}
\* Pages whose fetch starts with setLoading(true).
HasLoading(page) == page \in {"dashboard", "reddit"}

\* ---------------------------------------------------------------- Dashboard
MetricKeys == {"spx", "vix", "tenYear", "btc", "gold", "dxy"}

fallbackMetrics ==
    [spx     |-> [value |-> Str("5,924.02"), change |-> Num(24)],
     vix     |-> [value |-> Str("16.32"), change |-> Num(-318)],
     tenYear |-> [value |-> Str("4.28"), change |-> Num(2), suffix |-> "%"],
     btc     |-> [value |-> Str("97,432"), change |-> Num(187)],
     gold    |-> [value |-> Str("2,918"), change |-> Num(42)],
     dxy     |-> [value |-> Str("106.82"), change |-> Num(-15)]]

Point(m, y) == [maturity |-> m, yield |-> y]

fallbackYieldCurve ==
    << Point("FF", Num(533)), Point("2Y", Num(426)), Point("5Y", Num(413)),
       Point("10Y", Num(428)), Point("30Y", Num(451)) >>

\* n.toLocaleString("en-US", ...) with no fraction digits from 1000 up and two
\* below; the call throws when n is undefined or null.
formatPrice_Optional(n) ==
    IF n = Null THEN Null
    ELSE [str |-> "en-US", num |-> n.num, fractionDigits |-> IF n.num >= 1000 THEN 0 ELSE 2]

formatPrice(n) ==
    IF n = Null THEN TypeError
    ELSE [str |-> "en-US", num |-> n.num, fractionDigits |-> IF n.num >= 1000 THEN 0 ELSE 2]

\* n.toFixed(digits)
toFixed(n, digits) == [str |-> "fixed", num |-> n.num, fractionDigits |-> digits]

\* a ?? b
Coalesce(a, b) == IF a # Null THEN a ELSE b

\* { ...fallbackMetrics } overridden by the items the snapshot carries.
newMetrics(d) ==
    [spx     |-> IF d.spx # Null
                 THEN [value |-> formatPrice(d.spx.current_price),
                       change |-> d.spx.change_percent]
                 ELSE fallbackMetrics.spx,
     vix     |-> IF d.vix # Null
                 THEN [value |-> formatPrice(d.vix.current_price),
                       change |-> d.vix.change_percent]
                 ELSE fallbackMetrics.vix,
     tenYear |-> fallbackMetrics.tenYear,
     btc     |-> IF d.bitcoin # Null
                 THEN [value |-> formatPrice(d.bitcoin.current_price),
                       change |-> Coalesce(d.bitcoin.price_change_percentage_24h,
                                           Coalesce(d.bitcoin.change_percent, Num(0)))]
                 ELSE fallbackMetrics.btc,
     gold    |-> IF d.gold # Null
                 THEN [value |-> formatPrice(Coalesce(d.gold.price,
                                                      Coalesce(d.gold.current_price, Num(0)))),
                       change |-> d.gold.change_percent]
                 ELSE fallbackMetrics.gold,
     dxy     |-> IF d.dxy # Null
                 THEN [value |-> IF d.dxy.value # Null THEN toFixed(d.dxy.value, 2)
                                 ELSE IF d.dxy.rate # Null THEN toFixed(d.dxy.rate, 2)
                                 ELSE Str("-"),
                       change |-> d.dxy.change_percent]
                 ELSE fallbackMetrics.dxy]

\* Building the metrics threw.
Raises(m) == \E k \in DOMAIN m : m[k].value = TypeError

\* .filter((p) => p.yield != null)
NonNull(points) == SelectSeq(points, LAMBDA p : p.yield # Null)

\* The curve of the snapshot (5Y only when present) and the curve of FRED.
snapshotCurve(yc) ==
    NonNull(<< Point("FF", yc.fed_funds), Point("2Y", yc.treasury_2y) >>
            \o (IF yc.treasury_5y # Null THEN << Point("5Y", yc.treasury_5y) >> ELSE << >>)
            \o << Point("10Y", yc.treasury_10y), Point("30Y", yc.treasury_30y) >>)

fredCurve(d) ==
    NonNull(<< Point("FF", d.fed_funds), Point("2Y", d.treasury_2y),
               Point("10Y", d.treasury_10y), Point("30Y", d.treasury_30y) >>)

\* The regime of a CPI reading: above 3.0, below 1.5, otherwise.
regimeOf_Stagflationary(cpi) ==
    IF cpi.latest_value.num > 300 THEN "stagflationary"
    ELSE IF cpi.latest_value.num < 150 THEN "deflationary"
    ELSE "goldilocks"

regimeOf(cpi) ==
    IF cpi.latest_value.num > 300 THEN "inflationary_expansion"
    ELSE IF cpi.latest_value.num < 150 THEN "deflationary"
    ELSE "goldilocks"

\* res?.data
Usable(res) == res # Null /\ res.data # Null

\* The try block of fetchData, statement by statement, on the state D of
\* the Dashboard.
afterHealth(D, health) ==
    IF health # Null THEN [D EXCEPT !.apiStatus = "online"] ELSE D

snapshotThrows(res) == Usable(res) /\ Raises(newMetrics(res.data))

afterSnapshot(D, res) ==
    IF ~Usable(res) THEN D
    ELSE LET d == res.data
             D1 == [D EXCEPT !.dataSource = IF res.source # Null THEN res.source.str ELSE ""]
             curve == IF d.yield_curve # Null THEN snapshotCurve(d.yield_curve) ELSE << >>
             m == newMetrics(d)
         IN  IF Raises(m) THEN D1
             ELSE [D1 EXCEPT !.yieldCurve = IF Len(curve) > 0 THEN curve ELSE @,
                             !.metrics = m]

afterFredCurve(D, ycData) ==
    IF Usable(ycData) /\ Len(fredCurve(ycData.data)) > 0
    THEN [D EXCEPT !.yieldCurve = fredCurve(ycData.data)]
    ELSE D

afterRates(D, rates) ==
    IF Usable(rates) /\ rates.data.treasury_10y # Null
                     /\ rates.data.treasury_10y.latest_value # Null
    THEN LET tenY == rates.data.treasury_10y
         IN  [D EXCEPT !.metrics =
                  [@ EXCEPT !.tenYear = [value |-> toFixed(tenY.latest_value, 2),
                                         change |-> Coalesce(tenY.pct_change, Num(0)),
                                         suffix |-> "%"]]]
    ELSE D

afterInflation(D, inflationData) ==
    IF Usable(inflationData) /\ inflationData.data.cpi # Null
                             /\ inflationData.data.cpi.latest_value # Null
    THEN [D EXCEPT !.regime = regimeOf(inflationData.data.cpi)]
    ELSE D

\* try { ... } catch { keep fallback data }: a throw in the snapshot block
\* skips the statements after it; the setters called before it stay queued.
fetchDataTry(D, a) ==
    LET D2 == afterSnapshot(afterHealth(D, a.health), a.snapshotRes)
    IN  IF snapshotThrows(a.snapshotRes) THEN D2
        ELSE afterInflation(afterRates(afterFredCurve(D2, a.ycData), a.ratesData),
                            a.inflationData)

\* -------------------------------------------------- what the backend answers
\* A request that is rejected or times out reaches Promise.all as null
\* (.catch(() => null)); the other answers are response bodies.
Quote(price, chg) == [current_price |-> price, change_percent |-> chg]

fullSnapshot ==
    [spx |-> Quote(Num(5900), Num(30)),
     vix |-> Quote(Num(16), Num(-200)),
     dxy |-> [value |-> Num(106), rate |-> Null, change_percent |-> Num(-10)],
     bitcoin |-> [current_price |-> Num(97000), price_change_percentage_24h |-> Num(150),
                  change_percent |-> Null],
     gold |-> [price |-> Num(2900), current_price |-> Null, change_percent |-> Num(40)],
     yield_curve |-> [fed_funds |-> Num(530), treasury_2y |-> Num(420),
                      treasury_5y |-> Num(410), treasury_10y |-> Num(430),
                      treasury_30y |-> Num(450)]]

\* Sub-items missing: no vix, no bitcoin, a dxy and a gold without a price,
\* a curve with two of its points.
sparseSnapshot ==
    [spx |-> Quote(Num(5900), Null),
     vix |-> Null,
     dxy |-> [value |-> Null, rate |-> Null, change_percent |-> Null],
     bitcoin |-> Null,
     gold |-> [price |-> Null, current_price |-> Null, change_percent |-> Null],
     yield_curve |-> [fed_funds |-> Null, treasury_2y |-> Num(420),
                      treasury_5y |-> Null, treasury_10y |-> Num(430),
                      treasury_30y |-> Null]]

\* An spx item that carries no current_price.
brokenSnapshot == [fullSnapshot EXCEPT !.spx = Quote(Null, Null)]

\* The source tag of a market or Reddit response to a request for s.
SourceTags(s) == IF s = "live" THEN {Str("live"), Str("mock (fallback)")} ELSE {Str("mock")}
SourceTag(s) == Str(s)

HealthAnswers == {Null, [status |-> "healthy"]}

SnapshotAnswers(s) ==
    {Null} \cup {[data |-> fullSnapshot, source |-> t] : t \in SourceTags(s)}
           \cup {[data |-> d, source |-> SourceTag(s)] : d \in {sparseSnapshot, brokenSnapshot}}

fredYieldCurve ==
    [fed_funds |-> Num(533), treasury_2y |-> Num(426), treasury_10y |-> Num(431),
     treasury_30y |-> Num(455)]

YieldCurveAnswers ==
    {Null, [data |-> fredYieldCurve],
     [data |-> [fredYieldCurve EXCEPT !.fed_funds = Null, !.treasury_10y = Null]]}

fredRates == [treasury_10y |-> [latest_value |-> Num(431), pct_change |-> Null]]

RatesAnswers == {Null, [data |-> fredRates]}

InflationAnswers ==
    {Null} \cup {[data |-> [cpi |-> [latest_value |-> Num(v)]]] : v \in {200, 350}}

CreditAnswers == {Null, [data |-> [high_yield_spread |-> Num(310)]]}

RedditData(kind, s) == [kind |-> kind, of |-> s]

\* An empty body is truthy and has neither data nor source.
RedditAnswers(kind, s) ==
    {Null, [data |-> Null, source |-> Null]} \cup
    {[data |-> RedditData(kind, s), source |-> t] : t \in SourceTags(s)}

\* The source parameter the market or Reddit requests of a fetch carry.
ParamOf(b) == CHOOSE s \in Sources : \E r \in b.calls : r.params = [source |-> s]

DashboardAnswers ==
    [s \in Sources |->
        [health : HealthAnswers, snapshotRes : SnapshotAnswers(s), ycData : YieldCurveAnswers,
         ratesData : RatesAnswers, inflationData : InflationAnswers]]

RedditFeedAnswers ==
    [s \in Sources |->
        [sentRes : RedditAnswers("sentiment", s), postsRes : RedditAnswers("posts", s),
         trendRes : RedditAnswers("trending", s)]]

FixedIncomeAnswers ==
    [rates : RatesAnswers, yc : YieldCurveAnswers, credit : CreditAnswers]

\* ------------------------------------------------------------ useAutoRefresh
Batch(calls) == [calls |-> calls, pending |-> Cardinality(calls)]

\* The response that arrives is the last one its Promise.all waits for.
LastResponse_Any(b) == TRUE

LastResponse(b) == b.pending = 1

\* setLoading(true) of the pages that have a loading state.
startLoading ==
    /\ Dashboard' = IF route = "dashboard" THEN [Dashboard EXCEPT !.loading = TRUE]
                    ELSE Dashboard
    /\ RedditFeed' = IF route = "reddit" THEN [RedditFeed EXCEPT !.loading = TRUE]
                     ELSE RedditFeed
    /\ UNCHANGED FixedIncomeTab

\* doFetch up to its await, the fetch function up to its Promise.all.
doFetch(s) ==
    /\ BagCardinality(inflight) < MaxInFlight
    /\ refreshing' = TRUE
    /\ startLoading
    /\ inflight' = inflight (+) SetToBag({Batch(fetchCalls(route, s))})

\* doFetch after its await (the page stays mounted).
doFetchSettled(b) ==
    /\ inflight' = inflight (-) SetToBag({b})
    /\ lastUpdated' = Num(now)
    /\ refreshing' = FALSE

\* The Live / Mock buttons of Layout; pages that list the source among their
\* deps fetch again with the new closure.
ToggleSource(s) ==
    /\ route \in DataPages
    /\ s # source
    /\ source' = s
    /\ IF RefetchesOnSource(route) THEN doFetch(s)
       ELSE UNCHANGED <<refreshing, inflight, pageVars>>
    /\ UNCHANGED <<route, now, reportsVars, listVars, healthVars,
                   tabVars, interval, lastUpdated, answers>>

\* window.setInterval(doFetch, interval * 1000) fires; it is armed unless paused.
TimerTick ==
    /\ route \in DataPages
    /\ interval # 0
    /\ doFetch(source)
    /\ UNCHANGED <<route, now, reportsVars, listVars, healthVars,
                   tabVars, source, interval, lastUpdated, answers>>

\* The Refresh button of RefreshBar: disabled while refreshing; RedditFeed
\* renders no RefreshBar while loading.
Refresh ==
    /\ route \in DataPages
    /\ ~refreshing
    /\ route = "reddit" => ~RedditFeed.loading
    /\ doFetch(source)
    /\ UNCHANGED <<route, now, reportsVars, listVars, healthVars,
                   tabVars, source, interval, lastUpdated, answers>>

\* A response arrives while its Promise.all still waits for others.
Resolve(b) ==
    /\ route \in DataPages
    /\ BagIn(b, inflight)
    /\ ~LastResponse(b)
    /\ inflight' = (inflight (-) SetToBag({b})) (+) SetToBag({[b EXCEPT !.pending = @ - 1]})
    /\ UNCHANGED <<route, now, reportsVars, listVars, healthVars,
                   tabVars, source, interval, hookVars, answers, pageVars>>

\* try / catch / finally of fetchData from its await on.
fetchDataResumed(D, a) == [fetchDataTry(D, a) EXCEPT !.loading = FALSE]

\* The last response of a Dashboard fetch arrives: fetchData runs from its
\* await to its end, then doFetch does.
fetchDataSettled(b, a) ==
    /\ route = "dashboard"
    /\ BagIn(b, inflight)
    /\ LastResponse(b)
    /\ Dashboard' = fetchDataResumed(Dashboard, a)
    /\ doFetchSettled(b)
    /\ UNCHANGED <<route, now, reportsVars, listVars, healthVars,
                   tabVars, source, interval, answers, RedditFeed,
                   FixedIncomeTab>>

\* fetchReddit from its await on.
fetchRedditResumed(R, a) ==
    [sentiment |-> IF a.sentRes # Null THEN a.sentRes.data ELSE R.sentiment,
     src       |-> IF a.sentRes # Null THEN a.sentRes.source ELSE R.src,
     posts     |-> IF a.postsRes # Null THEN a.postsRes.data ELSE R.posts,
     trending  |-> IF a.trendRes # Null THEN a.trendRes.data ELSE R.trending,
     loading   |-> FALSE]

\* The last response of a Reddit fetch arrives.
fetchRedditSettled(b, a) ==
    /\ route = "reddit"
    /\ BagIn(b, inflight)
    /\ LastResponse(b)
    /\ RedditFeed' = fetchRedditResumed(RedditFeed, a)
    /\ doFetchSettled(b)
    /\ UNCHANGED <<route, now, reportsVars, listVars, healthVars,
                   tabVars, source, interval, answers, Dashboard,
                   FixedIncomeTab>>

\* fetchFixedIncome from its await on.
fetchFixedIncomeResumed(F, a) ==
    [ratesData  |-> IF Usable(a.rates) THEN a.rates.data ELSE F.ratesData,
     yieldCurve |-> IF Usable(a.yc) /\ Len(fredCurve(a.yc.data)) > 0
                    THEN fredCurve(a.yc.data) ELSE F.yieldCurve,
     creditData |-> IF Usable(a.credit) THEN a.credit.data ELSE F.creditData]

\* The last response of a Fixed Income fetch arrives.
fetchFixedIncomeSettled(b, a) ==
    /\ route = "fixed-income"
    /\ BagIn(b, inflight)
    /\ LastResponse(b)
    /\ FixedIncomeTab' = fetchFixedIncomeResumed(FixedIncomeTab, a)
    /\ doFetchSettled(b)
    /\ UNCHANGED <<route, now, reportsVars, listVars, healthVars,
                   tabVars, source, interval, answers, Dashboard,
                   RedditFeed>>

\* The Reports page is not mounted while a data page is shown.
ReportsUnmounted ==
    /\ level = 1 /\ format = "markdown"
    /\ includeTechnicals = FALSE /\ includeSentiment = FALSE /\ includeCorrelations = FALSE
    /\ generating = FALSE /\ generatedContent = Null /\ offline = FALSE
    /\ llmProviders = <<>> /\ selectedLLMProvider = NullId /\ selectedLLMModel = NullId
    /\ loadingReports = TRUE
    /\ request = Null /\ listLoads = 0 /\ providerLoad = FALSE
    /\ ListIdle

\* The useState initial values of the three pages.
InitDashboard ==
    [regime |-> "risk_on", apiStatus |-> "offline", dataSource |-> "",
     yieldCurve |-> fallbackYieldCurve, metrics |-> fallbackMetrics, loading |-> TRUE]

InitRedditFeed ==
    [sentiment |-> Null, posts |-> Null, trending |-> Null, src |-> Str(""), loading |-> TRUE]

InitFixedIncomeTab ==
    [ratesData |-> Null,
     yieldCurve |-> << Point("FF", Num(533)), Point("2Y", Num(426)), Point("10Y", Num(428)),
                       Point("30Y", Num(451)) >>,
     creditData |-> Null]

\* A data page just mounted: the stored source is read, the mount effect has
\* called doFetch.
InitData ==
    /\ route \in DataPages /\ now = 0
    /\ ReportsUnmounted /\ HealthUnmounted
    /\ source \in Sources
    /\ lastUpdated = Null /\ refreshing = TRUE
    /\ inflight = SetToBag({Batch(fetchCalls(route, source))})
    /\ Dashboard = IF route = "dashboard" THEN InitDashboard ELSE Null
    /\ RedditFeed = IF route = "reddit" THEN InitRedditFeed ELSE Null
    /\ FixedIncomeTab = IF route = "fixed-income" THEN InitFixedIncomeTab ELSE Null
    /\ EquitiesTab = Null /\ mountedRef = FALSE
    /\ timers = {} /\ timerIds = 0 /\ issued = 0

\* The last response of some fetch in flight arrives, with any answers.
FetchDataSettles ==
    /\ route = "dashboard"
    /\ \E b \in BagToSet(inflight) :
          /\ LastResponse(b)
          /\ \E a \in DashboardAnswers[ParamOf(b)] : fetchDataSettled(b, a)

FetchRedditSettles ==
    /\ route = "reddit"
    /\ \E b \in BagToSet(inflight) :
          /\ LastResponse(b)
          /\ \E a \in RedditFeedAnswers[ParamOf(b)] : fetchRedditSettled(b, a)

FetchFixedIncomeSettles ==
    /\ route = "fixed-income"
    /\ \E b \in BagToSet(inflight) :
          /\ LastResponse(b)
          /\ \E a \in FixedIncomeAnswers : fetchFixedIncomeSettled(b, a)

NextData ==
    \/ \E s \in Sources : ToggleSource(s)
    \/ TimerTick
    \/ Refresh
    \/ \E b \in BagToSet(inflight) : Resolve(b)
    \/ FetchDataSettles
    \/ FetchRedditSettles
    \/ FetchFixedIncomeSettles

\* No interval is stored, so the default one is armed; the backend answers
\* each fetch as it pleases.  Nothing the data pages do depends on the time
\* that passes between two steps, so the clock stays at the time of mount.
InitDataPage == InitData /\ interval = DefaultInterval /\ answers = Null

SpecData == InitDataPage /\ [][NextData]_vars

\* ------------------------------------------------- a backend that repeats itself
\* The answers are drawn once and every fetch of the behaviour receives them;
\* the source stays as stored, so that the answers fit the requests.  Any of
\* the intervals may be stored.
AnswersOf(page, s) ==
    CASE page = "dashboard" -> DashboardAnswers[s]
      [] page = "reddit" -> RedditFeedAnswers[s]
      [] OTHER -> FixedIncomeAnswers

InitAnswered ==
    InitData /\ interval \in RefreshIntervals /\ answers \in AnswersOf(route, source)

FetchDataAnswered ==
    /\ route = "dashboard"
    /\ \E b \in BagToSet(inflight) : LastResponse(b) /\ fetchDataSettled(b, answers)

FetchRedditAnswered ==
    /\ route = "reddit"
    /\ \E b \in BagToSet(inflight) : LastResponse(b) /\ fetchRedditSettled(b, answers)

FetchFixedIncomeAnswered ==
    /\ route = "fixed-income"
    /\ \E b \in BagToSet(inflight) : LastResponse(b) /\ fetchFixedIncomeSettled(b, answers)

NextAnswered ==
    \/ TimerTick
    \/ Refresh
    \/ \E b \in BagToSet(inflight) : Resolve(b)
    \/ FetchDataAnswered
    \/ FetchRedditAnswered
    \/ FetchFixedIncomeAnswered

SpecAnswered == InitAnswered /\ [][NextAnswered]_vars

\* ==================================================== data pages: the claims
MarketAndRedditUrls ==
    {"/api/v1/data/market/snapshot", "/api/v1/reddit/sentiment", "/api/v1/reddit/posts",
     "/api/v1/reddit/trending"}

FredUrls ==
    {"/api/v1/data/fred/inflation", "/api/v1/data/fred/rates", "/api/v1/data/fred/credit",
     "/api/v1/data/fred/yield-curve"}

\* The request carries a source parameter, and it is the given one.
CarriesSource(r, selected) == r.params # Null /\ r.params.source = selected

\* The fetch is issued in this step.
IssuedNow(b) ==
    /\ b.pending = Cardinality(b.calls)
    /\ CopiesIn(b, inflight') > CopiesIn(b, inflight)

\* C7 as stated: every read of live data (market, Reddit, FRED) that a page
\* issues, on mount or on a toggle, a timer tick or a manual refresh, carries a
\* source parameter equal to the source selected at that moment.
C7_LiveReadsCarrySource ==
    /\ \A b \in BagToSet(inflight) : \A r \in b.calls :
          r.url \in MarketAndRedditUrls \cup FredUrls => CarriesSource(r, source)
    /\ [][\A b \in BagToSet(inflight') : IssuedNow(b) =>
             \A r \in b.calls :
                r.url \in MarketAndRedditUrls \cup FredUrls => CarriesSource(r, source')]_vars

\* C7 amended: every market and Reddit read a page issues, on mount or on a
\* toggle, a timer tick or a manual refresh, carries a source parameter equal
\* to the source selected at that moment; FRED reads carry none.
C7_MarketReadsCarrySource ==
    /\ \A b \in BagToSet(inflight) : \A r \in b.calls :
          /\ r.url \in MarketAndRedditUrls => CarriesSource(r, source)
          /\ r.url \in FredUrls => r.params = Null
    /\ [][\A b \in BagToSet(inflight') : IssuedNow(b) =>
             \A r \in b.calls :
                /\ r.url \in MarketAndRedditUrls => CarriesSource(r, source')
                /\ r.url \in FredUrls => r.params = Null]_vars

\* After a first fetch completed under one source, the other source was
\* selected and the Dashboard fetch now in flight asks for it.
C7_Witness ==
    /\ route = "dashboard" /\ lastUpdated # Null /\ source = "mock"
    /\ Dashboard.dataSource = "live"
    /\ \E b \in BagToSet(inflight) : getMarketSnapshot("mock") \in b.calls

\* A request succeeded when it resolved with a response the page can use.
SnapshotSucceeded(res) == Usable(res) /\ ~Raises(newMetrics(res.data))
CurveSucceeded(res) == Usable(res) /\ Len(fredCurve(res.data)) > 0
RatesSucceeded(res) ==
    Usable(res) /\ res.data.treasury_10y # Null /\ res.data.treasury_10y.latest_value # Null
InflationSucceeded(res) ==
    Usable(res) /\ res.data.cpi # Null /\ res.data.cpi.latest_value # Null

IsolatedDashboard ==
    /\ answers.health # Null => Dashboard.apiStatus = "online"
    /\ SnapshotSucceeded(answers.snapshotRes) =>
          /\ Dashboard.dataSource = answers.snapshotRes.source.str
          /\ \A k \in MetricKeys \ {"tenYear"} :
                Dashboard.metrics[k] = newMetrics(answers.snapshotRes.data)[k]
    /\ CurveSucceeded(answers.ycData) =>
          Dashboard.yieldCurve = fredCurve(answers.ycData.data)
    /\ RatesSucceeded(answers.ratesData) =>
          Dashboard.metrics.tenYear.value =
              toFixed(answers.ratesData.data.treasury_10y.latest_value, 2)
    /\ InflationSucceeded(answers.inflationData) =>
          Dashboard.regime = regimeOf(answers.inflationData.data.cpi)

IsolatedRedditFeed ==
    /\ answers.sentRes # Null =>
          RedditFeed.sentiment = answers.sentRes.data /\ RedditFeed.src = answers.sentRes.source
    /\ answers.postsRes # Null => RedditFeed.posts = answers.postsRes.data
    /\ answers.trendRes # Null => RedditFeed.trending = answers.trendRes.data

IsolatedFixedIncomeTab ==
    /\ Usable(answers.rates) => FixedIncomeTab.ratesData = answers.rates.data
    /\ CurveSucceeded(answers.yc) => FixedIncomeTab.yieldCurve = fredCurve(answers.yc.data)
    /\ Usable(answers.credit) => FixedIncomeTab.creditData = answers.credit.data

\* C8: once a fetch of the Dashboard, of the Reddit feed or of the Fixed Income
\* tab has completed, the state derived from every request that succeeded is
\* shown, whichever of the other requests failed (rejected, timed out, or
\* answered with a response that cannot be used).
C8_DomainIsolation ==
    lastUpdated # Null =>
        CASE route = "dashboard" -> IsolatedDashboard
          [] route = "reddit" -> IsolatedRedditFeed
          [] OTHER -> IsolatedFixedIncomeTab

\* What a page shows of the responses it received.
Shown ==
    CASE route = "dashboard" ->
           << Dashboard.apiStatus, Dashboard.dataSource, Dashboard.yieldCurve,
              Dashboard.metrics, Dashboard.regime >>
      [] route = "reddit" ->
           << RedditFeed.sentiment, RedditFeed.src, RedditFeed.posts, RedditFeed.trending >>
      [] OTHER -> << >>

\* C9: on the Dashboard (five requests) and on the Reddit feed (three), what is
\* shown of the responses changes only in the step in which the last pending
\* request of a fetch resolves, and that fetch leaves the fetches in flight.
C9_NeverPartiallyAssembled ==
    [][Shown' # Shown =>
          \E b \in BagToSet(inflight) :
             /\ b.pending = 1
             /\ inflight' = inflight (-) SetToBag({b})]_vars

\* A Dashboard fetch completed and several of its responses are shown.
C9_Witness ==
    /\ route = "dashboard" /\ lastUpdated # Null
    /\ Dashboard.apiStatus = "online"
    /\ Dashboard.regime = "inflationary_expansion"
    /\ Dashboard.metrics.spx.value = formatPrice(Num(5900))
    /\ Dashboard.yieldCurve = fredCurve(fredYieldCurve)

\* A value the card can display: neither undefined nor an exception.
Defined(v) == v # Null /\ v # TypeError

\* C10: the metrics of the Dashboard always hold the six entries spx, vix,
\* tenYear, btc, gold and dxy, each with a defined display value.
C10_SixMetricsAlways ==
    route = "dashboard" =>
        /\ DOMAIN Dashboard.metrics = MetricKeys
        /\ \A k \in MetricKeys :
              /\ "value" \in DOMAIN Dashboard.metrics[k]
              /\ Defined(Dashboard.metrics[k].value)

\* A snapshot with missing sub-items was applied, and the 10Y of FRED over it.
C10_Witness ==
    /\ route = "dashboard" /\ lastUpdated # Null
    /\ Dashboard.metrics.dxy.value = Str("-")
    /\ Dashboard.metrics.vix = fallbackMetrics.vix
    /\ Dashboard.metrics.gold.value = formatPrice(Num(0))
    /\ Dashboard.metrics.tenYear.value = toFixed(Num(431), 2)

\* --------------------------------------------------------- Market Data tabs
\* The Equities tab stands for the four market tabs (Equities, FX,
\* Commodities, Crypto): each keeps data, src and loading, fetches one
\* request with the selected source and hands the fetch to useAutoRefresh
\* with deps [source].  Here the hook is followed through its whole life:
\* overlapping fetches, the interval effect and its timer, and the unmount.
\* Requests a tab issues from its mount on.
MaxIssued == 3
\* Timers window.setInterval hands to a tab from its mount on.
MaxTimers == 3

getEquities_Sticky(s) ==
    Get("/api/v1/data/market/equities",
        [source |-> IF EquitiesTab.src = Str("mock (fallback)") THEN "mock" ELSE s])

getEquities(s) == Get("/api/v1/data/market/equities", [source |-> s])

\* One run of doFetch awaiting fetchEquities: the call site of doFetch that
\* started it, the request it awaits and its place among the requests issued.
Call(caller, s, n) ==
    [calls |-> {getEquities(s)}, pending |-> 1, caller |-> caller, n |-> n]

\* The body of the response to request n; every response is its own.
EquitiesData(n) == [us |-> [spx |-> [current_price |-> Num(590000)]], request |-> n]

EquitiesAnswers(b) ==
    {Null} \cup {[data |-> EquitiesData(b.n), source |-> t] : t \in SourceTags(ParamOf(b))}

InitEquitiesTab == [data |-> Null, src |-> Str(""), loading |-> TRUE]

\* fetchEquities from its await on: try, catch, finally.
fetchEquitiesResumed_NoFinally(E, res) ==
    [data    |-> IF res # Null THEN res.data ELSE E.data,
     src     |-> IF res # Null THEN res.source ELSE E.src,
     loading |-> IF res # Null THEN FALSE ELSE E.loading]

fetchEquitiesResumed_Cleared(E, res) ==
    [data    |-> IF res # Null THEN res.data ELSE Null,
     src     |-> IF res # Null THEN res.source ELSE Str(""),
     loading |-> FALSE]

fetchEquitiesResumed(E, res) ==
    [data    |-> IF res # Null THEN res.data ELSE E.data,
     src     |-> IF res # Null THEN res.source ELSE E.src,
     loading |-> FALSE]

\* if (mountedRef.current) set...(new)
ifMounted_Always(new, old) == new

ifMounted(new, old) == IF mountedRef THEN new ELSE old

\* doFetch up to its await, fetchEquities up to its await; s is the source in
\* the closure fnRef.current holds.
tabDoFetch(caller, s) ==
    /\ issued < MaxIssued
    /\ issued' = issued + 1
    /\ refreshing' = TRUE
    /\ EquitiesTab' = [EquitiesTab EXCEPT !.loading = TRUE]
    /\ inflight' = inflight (+) SetToBag({Call(caller, s, issued + 1)})

\* The deps of the fetch effect, [...deps] with deps = [source].
fetchEffectDeps_Interval(s, i) == <<s, i>>

fetchEffectDeps(s, i) == <<s>>

\* The deps of the interval effect, [interval, doFetch]; doFetch is the same
\* function in every render (useCallback with no deps), fetchFn is not.
timerEffectDeps_FetchFn(s, i) == <<i, s>>

timerEffectDeps(s, i) == <<i>>

\* window.clearInterval(id) in the cleanup of the interval effect.
clearInterval_Skipped(ts, id) == ts

clearInterval(ts, id) == {t \in ts : t.id # id}

\* The interval effect runs for interval i: the cleanup of its previous run,
\* then window.setInterval unless paused.
intervalEffect(i) ==
    IF i = 0
    THEN /\ timers' = clearInterval(timers, timerIds)
         /\ UNCHANGED timerIds
    ELSE /\ timerIds < MaxTimers
         /\ timers' = clearInterval(timers, timerIds)
                         \cup {[id |-> timerIds + 1, period |-> i]}
         /\ timerIds' = timerIds + 1

\* The tab renders with source s and interval i; React runs the effects whose
\* deps changed.
tabRendered(s, i) ==
    /\ IF fetchEffectDeps(s, i) # fetchEffectDeps(source, interval)
       THEN tabDoFetch("effect", s)
       ELSE UNCHANGED <<refreshing, inflight, issued, EquitiesTab>>
    /\ IF timerEffectDeps(s, i) # timerEffectDeps(source, interval)
       THEN intervalEffect(i)
       ELSE UNCHANGED <<timers, timerIds>>

\* The Live / Mock buttons of Layout while the Market Data page is shown.
TabToggleSource(s) ==
    /\ route = "equities"
    /\ s # source
    /\ source' = s
    /\ IF mountedRef THEN tabRendered(s, interval)
       ELSE UNCHANGED <<refreshing, inflight, issued, EquitiesTab, timers, timerIds>>
    /\ UNCHANGED <<route, now, reportsVars, listVars, healthVars,
                   interval, lastUpdated, answers, pageVars,
                   mountedRef>>

\* setInterval of RefreshContext is called with another of the options.
TabSetInterval(i) ==
    /\ route = "equities"
    /\ i # interval
    /\ interval' = i
    /\ IF mountedRef THEN tabRendered(source, i)
       ELSE UNCHANGED <<refreshing, inflight, issued, EquitiesTab, timers, timerIds>>
    /\ UNCHANGED <<route, now, reportsVars, listVars, healthVars,
                   source, lastUpdated, answers, pageVars,
                   mountedRef>>

\* An armed timer fires and calls doFetch.
TabTimerTick ==
    /\ route = "equities"
    /\ timers # {}
    /\ tabDoFetch("timer", source)
    /\ UNCHANGED <<route, now, reportsVars, listVars, healthVars,
                   source, interval, lastUpdated, answers,
                   pageVars, mountedRef, timers, timerIds>>

\* The Refresh button of the tab's RefreshBar, disabled while refreshing.
TabRefresh ==
    /\ route = "equities"
    /\ mountedRef
    /\ ~refreshing
    /\ tabDoFetch("refresh", source)
    /\ UNCHANGED <<route, now, reportsVars, listVars, healthVars,
                   source, interval, lastUpdated, answers,
                   pageVars, mountedRef, timers, timerIds>>

\* The response to the request of b arrives: fetchEquities runs from its
\* await to its end, then doFetch does.
fetchEquitiesSettled(b, res) ==
    /\ route = "equities"
    /\ BagIn(b, inflight)
    /\ EquitiesTab' = fetchEquitiesResumed(EquitiesTab, res)
    /\ inflight' = inflight (-) SetToBag({b})
    /\ lastUpdated' = ifMounted(Num(now), lastUpdated)
    /\ refreshing' = ifMounted(FALSE, refreshing)
    /\ UNCHANGED <<route, now, reportsVars, listVars, healthVars,
                   source, interval, answers, pageVars,
                   mountedRef, timers, timerIds, issued>>

\* Request n is answered, in any order and with any answer.
FetchEquitiesSettles(n) ==
    /\ route = "equities"
    /\ \E b \in BagToSet(inflight) :
          /\ b.n = n
          /\ \E res \in EquitiesAnswers(b) : fetchEquitiesSettled(b, res)

\* Another tab is chosen: the cleanups of the effects run.
TabUnmount ==
    /\ route = "equities"
    /\ mountedRef
    /\ mountedRef' = FALSE
    /\ timers' = clearInterval(timers, timerIds)
    /\ UNCHANGED <<route, now, reportsVars, listVars, healthVars,
                   source, interval, hookVars, inflight, answers,
                   pageVars, EquitiesTab, timerIds, issued>>

\* The Market Data page just mounted with the Equities tab: the fetch effect
\* has called doFetch, the interval effect has armed its timer unless paused.
InitTab ==
    /\ route = "equities" /\ now = 0
    /\ ReportsUnmounted /\ HealthUnmounted
    /\ source \in Sources /\ interval \in RefreshIntervals
    /\ EquitiesTab = InitEquitiesTab
    /\ mountedRef = TRUE
    /\ lastUpdated = Null /\ refreshing = TRUE
    /\ inflight = SetToBag({Call("effect", source, 1)})
    /\ answers = Null
    /\ Dashboard = Null /\ RedditFeed = Null /\ FixedIncomeTab = Null
    /\ timers = IF interval = 0 THEN {} ELSE {[id |-> 1, period |-> interval]}
    /\ timerIds = IF interval = 0 THEN 0 ELSE 1
    /\ issued = 1

NextTab ==
    \/ \E s \in Sources : TabToggleSource(s)
    \/ \E i \in RefreshIntervals : TabSetInterval(i)
    \/ TabTimerTick
    \/ TabRefresh
    \/ \E n \in 1..MaxIssued : FetchEquitiesSettles(n)
    \/ TabUnmount

SpecTab == InitTab /\ [][NextTab]_vars

\* Every HTTP request resolves or rejects: axios gives up after its timeout.
TabFairness == \A n \in 1..MaxIssued : WF_vars(FetchEquitiesSettles(n))

\* The flags do not depend on the interval: for the progress of the fetches
\* the tab keeps the default interval, so that its timer stays armed while
\* it is mounted.
InitFairTab == InitTab /\ interval = DefaultInterval

NextFairTab ==
    \/ \E s \in Sources : TabToggleSource(s)
    \/ TabTimerTick
    \/ TabRefresh
    \/ \E n \in 1..MaxIssued : FetchEquitiesSettles(n)
    \/ TabUnmount

FairSpecTab == InitFairTab /\ [][NextFairTab]_vars /\ TabFairness

\* ------------------------------------------------- claims on the market tabs
\* A response arrives in this step.
Answered == \E b \in BagToSet(inflight) : CopiesIn(b, inflight') < CopiesIn(b, inflight)

\* The fetches issued in this step.
IssuedHere == {b \in BagToSet(inflight') : b.n > issued}

\* C11: a fallback is not sticky.  No arriving response, whatever its tag,
\* and no failed request changes the selected source, and every request the
\* tab issues carries the source selected at that moment, also after a
\* response tagged as fallback has been displayed.
C11_FallbackNotSticky ==
    [][/\ Answered => source' = source
       /\ \A b \in IssuedHere : \A r \in b.calls : CarriesSource(r, source')]_vars

\* Live is selected, the tab shows a fallback, and a later refresh is in
\* flight with source=live.
C11_Witness ==
    /\ route = "equities" /\ source = "live"
    /\ EquitiesTab.src = Str("mock (fallback)")
    /\ \E b \in BagToSet(inflight) :
          /\ b.n > EquitiesTab.data.request
          /\ b.caller \in {"timer", "refresh"}
          /\ b.calls = {Get("/api/v1/data/market/equities", [source |-> "live"])}

\* C12 as stated: overlapping fetches of one tab are safe.  The response to
\* an older request never replaces the displayed response to a newer one, so
\* that once every fetch has resolved the tab shows the data and the badge of
\* the most recently issued request that was answered.
C12_LatestRequestWins ==
    [][EquitiesTab.data # Null /\ EquitiesTab'.data # Null
          => EquitiesTab'.data.request >= EquitiesTab.data.request]_vars

\* C13: cancellation by unmount.  The unmount clears the timer; from then on
\* no fetch is started and the completion of a fetch that was in flight
\* changes neither lastUpdated nor refreshing.
C13_CancelledByUnmount ==
    [][/\ ~mountedRef' => timers' = {}
       /\ ~mountedRef => /\ issued' = issued
                         /\ IssuedHere = {}
                         /\ lastUpdated' = lastUpdated
                         /\ refreshing' = refreshing]_vars

\* The tab unmounted with its first fetch in flight and a timer armed; the
\* fetch has completed since with a response.
C13_Witness ==
    /\ route = "equities" /\ ~mountedRef
    /\ interval # 0 /\ timers = {}
    /\ inflight = EmptyBag
    /\ EquitiesTab.data # Null
    /\ lastUpdated = Null /\ refreshing

\* ---------------------------------------- the macro inputs of the Dashboard
\* The Dashboard stays mounted while the CPI reading the backend serves
\* changes from fetch to fetch; readings are in hundredths of a percent and
\* lie on both sides of the two thresholds.  The other requests fail, or the
\* snapshot comes back with a quote that has no price.
CpiReadings == {-50, 0, 149, 150, 151, 299, 300, 301, 900}

MacroInflationAnswers ==
    {Null, [data |-> Null], [data |-> [cpi |-> Null]],
     [data |-> [cpi |-> [latest_value |-> Null]]]}
    \cup {[data |-> [cpi |-> [latest_value |-> Num(v)]]] : v \in CpiReadings}

MacroAnswers ==
    [s \in Sources |->
        [health : {Null},
         snapshotRes : {Null, [data |-> brokenSnapshot, source |-> SourceTag(s)]},
         ycData : {Null}, ratesData : {Null},
         inflationData : MacroInflationAnswers]]

\* What the backend would answer changes between two fetches.
MacroInputsChange ==
    /\ route = "dashboard"
    /\ \E a \in MacroAnswers[source] : a # answers /\ answers' = a
    /\ UNCHANGED <<route, now, reportsVars, listVars, healthVars,
                   tabVars, source, interval, hookVars, inflight,
                   pageVars>>

InitMacro ==
    InitData /\ route = "dashboard" /\ interval = DefaultInterval
             /\ answers \in MacroAnswers[source]

NextMacro ==
    \/ TimerTick
    \/ Refresh
    \/ \E b \in BagToSet(inflight) : Resolve(b)
    \/ FetchDataAnswered
    \/ MacroInputsChange

SpecMacro == InitMacro /\ [][NextMacro]_vars

\* The regime labels StatusBadge has a colour for.
MarketRegimes ==
    {"goldilocks", "risk_on", "inflationary_expansion", "stagflation", "deflationary",
     "risk_off"}

\* ------------------------------------------------------ claims on the regime
\* A fetch of the Dashboard completes in this step, with the current answers.
DashboardSettled ==
    \E b \in BagToSet(inflight) : LastResponse(b) /\ CopiesIn(b, inflight') < CopiesIn(b, inflight)

\* The inflation response carries a CPI latest_value.
HasCpi(res) == Usable(res) /\ res.data.cpi # Null /\ res.data.cpi.latest_value # Null

C15_MissingInputsGiveDefault ==
    [][DashboardSettled /\ ~HasCpi(answers.inflationData)
          => Dashboard'.regime = InitDashboard.regime]_vars

\* --------------------------------------------- the provider controls alone
\* The Reports page with the controls that decide the provider, the model,
\* the level and the format of a request, the model select included; the
\* include checkboxes, the report list and the clock are left where they
\* start.
NextProviders ==
    \/ \E l \in Levels : SetLevel(l)
    \/ \E f \in Formats : SetFormat(f)
    \/ \E p \in {NullId} \cup {ProviderList[i].id : i \in 1..Len(ProviderList)} :
          selectProvider(p)
    \/ \E i \in 1..Len(ProviderList) : \E model \in ProviderList[i].models : SetModel(model)
    \/ HandleGenerate
    \/ generating /\ \E resp \in GenerateResponses(request) : GenerateSettled(resp)
    \/ \E ok \in BOOLEAN : LoadLLMProvidersSettled(ok)

SpecProviders == InitReportsPage /\ [][NextProviders]_vars

\* ------------------------------------------------ claims on the LLM provider
\* The provider is one of the listed providers and its available flag is true.
ListedAvailable(id) ==
    \E i \in 1..Len(llmProviders) : llmProviders[i].id = id /\ llmProviders[i].available

\* C16: every generate request the Reports page issues is well-formed: its
\* level is 1, 2 or 3, its format is one of markdown, json, html, pdf, and its
\* llm_provider is absent or a listed provider that is available.  The model
\* is null whenever the provider is, and selecting the provider that is
\* already selected returns to rule-based, provider and model both null.
C16_RequestsWellFormed ==
    /\ [](request # Null =>
            /\ request.level \in {1, 2, 3}
            /\ request.format \in {"markdown", "json", "html", "pdf"}
            /\ request.llm_provider # NullId => ListedAvailable(request.llm_provider))
    /\ [](selectedLLMProvider = NullId => selectedLLMModel = NullId)
    /\ [][selectProvider(selectedLLMProvider)
             => selectedLLMProvider' = NullId /\ selectedLLMModel' = NullId]_vars

\* A request with an LLM provider is in flight and the user has since
\* clicked the selected provider again.
C16_Witness ==
    /\ route = "reports" /\ generating
    /\ request.llm_provider = "openai" /\ request.level = 3 /\ request.format = "pdf"
    /\ selectedLLMProvider = NullId /\ selectedLLMModel = NullId

\* -------------------------------------------------- claims on useAutoRefresh
\* C17: useAutoRefresh invokes the fetch function once on mount and once for
\* each change of a value in deps (here the source); every other invocation
\* comes from a tick of an armed timer or from the Refresh button.  A step
\* invokes it at most once, a change of the source invokes it exactly once
\* from the fetch effect, and no other step invokes it from the effect.
C17_FetchOncePerDepsChange ==
    /\ issued = 1 /\ \A b \in BagToSet(inflight) : b.caller = "effect" /\ b.n = 1
    /\ [][/\ Cardinality(IssuedHere) = issued' - issued
          /\ issued' - issued \in {0, 1}
          /\ mountedRef /\ source' # source
                => \E b \in IssuedHere : b.caller = "effect" /\ b.n = issued + 1
          /\ source' = source
                => \A b \in IssuedHere :
                      \/ b.caller = "timer" /\ timers # {}
                      \/ b.caller = "refresh" /\ ~refreshing]_vars

\* After the fetch of the mount, a toggle and a tick have each invoked the
\* fetch function once, and the interval was changed in between.
C17_Witness ==
    /\ route = "equities" /\ mountedRef /\ issued = 3 /\ timerIds = 2
    /\ \E b \in BagToSet(inflight) : b.caller = "effect" /\ b.n = 2
    /\ \E b \in BagToSet(inflight) : b.caller = "timer" /\ b.n = 3

\* C18: a mounted useAutoRefresh has at most one timer armed: none while the
\* interval is 0, exactly one with the period of the interval otherwise.  A
\* change of the interval clears the previous timer, and a step that keeps
\* the interval (a render with a new fetch function among them) leaves the
\* armed timer in place.
C18_AtMostOneTimer ==
    /\ [](mountedRef =>
            /\ Cardinality(timers) <= 1
            /\ interval = 0 => timers = {}
            /\ interval # 0 => \E t \in timers : timers = {t} /\ t.period = interval)
    /\ [][mountedRef /\ mountedRef' =>
             /\ interval' # interval => timers' \cap timers = {}
             /\ interval' = interval => timers' = timers]_vars

\* The interval was changed once and the source toggled since: the second
\* timer is the only one armed.
C18_Witness ==
    /\ route = "equities" /\ mountedRef
    /\ interval = 60 /\ timers = {[id |-> 2, period |-> 60]}
    /\ \E b \in BagToSet(inflight) : b.caller = "effect" /\ b.n > 1

\* C19 as stated: while the hook is mounted, refreshing is true in exactly
\* the states where a fetch it started is still in flight, also when a tick,
\* a change of deps and a manual refresh overlap; hence the Refresh button,
\* disabled while refreshing, starts no fetch while one is in flight.
C19_RefreshingIffInFlight ==
    mountedRef => (refreshing <=> inflight # EmptyBag)

\* Request n is in flight.
InFlight(n) == \E b \in BagToSet(inflight) : b.n = n

\* C20: no loading flag stays stuck.  Given that every request resolves or
\* rejects, every fetch a tab starts leads to a state where its request is
\* answered and, unless the tab has unmounted meanwhile, refreshing and
\* loading are both false, whether the request succeeded or failed.
C20_NoFlagStuck ==
    \A n \in 1..MaxIssued :
        InFlight(n) ~> (~InFlight(n) /\ (mountedRef => ~refreshing /\ ~EquitiesTab.loading))

\* A request that failed has left both flags false while the tab is mounted.
C20_Witness ==
    /\ route = "equities" /\ mountedRef
    /\ issued > 1 /\ inflight = EmptyBag
    /\ EquitiesTab.data = Null
    /\ ~refreshing /\ ~EquitiesTab.loading

\* The request of a fetch of the tab is rejected in this step: its fetch leaves
\* the flight and its response (each response is its own) is not displayed.
RejectedHere ==
    \E b \in BagToSet(inflight) :
       /\ CopiesIn(b, inflight') < CopiesIn(b, inflight)
       /\ EquitiesTab'.data = Null \/ EquitiesTab'.data.request # b.n

\* C21 as stated: lastUpdated advances only on a fetch whose request
\* succeeded; a refresh whose request failed leaves lastUpdated unchanged.
C21_LastUpdatedOnlyOnSuccess ==
    [][RejectedHere => lastUpdated' = lastUpdated]_vars

\* C22: a failed fetch keeps the existing data.  When the request of a
\* market tab rejects, data and src stay exactly as they were and of the
\* tab's state only loading changes (to false).
C22_FailedFetchKeepsData ==
    [][RejectedHere => /\ EquitiesTab'.data = EquitiesTab.data
                       /\ EquitiesTab'.src = EquitiesTab.src
                       /\ ~EquitiesTab'.loading]_vars

\* The mount's request was answered; the manual refresh that followed (no
\* timer was ever armed, the source was not toggled) was rejected and the
\* first response is still shown.
C22_Witness ==
    /\ route = "equities" /\ mountedRef
    /\ source = "mock" /\ timerIds = 0
    /\ issued = 2 /\ inflight = EmptyBag
    /\ EquitiesTab.data # Null /\ EquitiesTab.data.request = 1
    /\ EquitiesTab.src = Str("mock") /\ ~EquitiesTab.loading

\* ------------------------------------- the Dashboard against a moving backend
\* The Dashboard stays mounted while what the backend would answer changes
\* between fetches: health up or down, the snapshot missing, full, sparse or
\* with a quote without price, the FRED curve and rates present or not.
nullYieldCurve ==
    [fed_funds |-> Null, treasury_2y |-> Null, treasury_10y |-> Null, treasury_30y |-> Null]

BackendAnswers ==
    [s \in Sources |->
        [health : HealthAnswers,
         snapshotRes : {Null} \cup {[data |-> d, source |-> SourceTag(s)] :
                                      d \in {fullSnapshot, sparseSnapshot, brokenSnapshot}},
         ycData : YieldCurveAnswers \cup {[data |-> nullYieldCurve]},
         ratesData : RatesAnswers,
         inflationData : {Null}]]

BackendChanges ==
    /\ route = "dashboard"
    /\ \E a \in BackendAnswers[source] : a # answers /\ answers' = a
    /\ UNCHANGED <<route, now, reportsVars, listVars, healthVars,
                   tabVars, source, interval, hookVars, inflight,
                   pageVars>>

InitBackend ==
    InitData /\ route = "dashboard" /\ interval = DefaultInterval
             /\ answers \in BackendAnswers[source]

NextBackend ==
    \/ TimerTick
    \/ Refresh
    \/ \E b \in BagToSet(inflight) : Resolve(b)
    \/ FetchDataAnswered
    \/ BackendChanges

SpecBackend == InitBackend /\ [][NextBackend]_vars

\* ------------------------------------------ claims on the Dashboard's display
\* Some request of the refresh that completes in this step failed.
SomeRequestFailed ==
    \E f \in DOMAIN answers : answers[f] = Null

\* C23 as stated: the canned fallback metrics are shown only when the data
\* is unavailable.  A refresh in which some request fails never replaces a
\* metric obtained from an earlier successful response by its fallback
\* constant.
C23_FallbackNeverReplacesData ==
    [][DashboardSettled /\ SomeRequestFailed
          => \A k \in MetricKeys :
                Dashboard.metrics[k] # fallbackMetrics[k]
                   => Dashboard'.metrics[k] # fallbackMetrics[k]]_vars

\* The maturities of a curve, in the order it lists them.
Maturities(curve) == [i \in 1..Len(curve) |-> curve[i].maturity]

\* A curve as the claim wants it displayed.
WellFormedCurve(curve) ==
    /\ Len(curve) > 0
    /\ \A i \in 1..Len(curve) : curve[i].yield # Null
    /\ IsSubseq(Maturities(curve), <<"FF", "2Y", "5Y", "10Y", "30Y">>)

\* The snapshot, the FRED response, supplies a curve with a non-null point.
SnapshotSuppliesCurve(res) ==
    Usable(res) /\ res.data.yield_curve # Null /\ Len(snapshotCurve(res.data.yield_curve)) > 0

FredSuppliesCurve(res) == Usable(res) /\ Len(fredCurve(res.data)) > 0

\* The curve is replaced only when a refresh completes with a response that
\* has a non-null point.
CurveReplacedByData ==
    [][Dashboard'.yieldCurve # Dashboard.yieldCurve
          => /\ DashboardSettled
             /\ SnapshotSuppliesCurve(answers.snapshotRes) \/ FredSuppliesCurve(answers.ycData)]_vars

\* C24 as stated: partial yield-curve data is kept, never blanked.  The
\* displayed curve is always non-empty, without null yields and in the order
\* FF, 2Y, (5Y), 10Y, 30Y; it is replaced only by a response with at least one
\* non-null point; and when the snapshot and FRED both supply a curve in one
\* refresh, the FRED curve is the one shown.
C24_CurveKeptFredPreferred ==
    /\ [](WellFormedCurve(Dashboard.yieldCurve))
    /\ CurveReplacedByData
    /\ [][DashboardSettled /\ SnapshotSuppliesCurve(answers.snapshotRes)
             /\ FredSuppliesCurve(answers.ycData)
           => Dashboard'.yieldCurve = fredCurve(answers.ycData.data)]_vars

\* ============================================= Reports: the list of past reports
\* The backend may hold MaxReports reports over a behaviour, and the page may
\* have MaxDeletes deleteReport requests in flight at once.
MaxReports == 3
MaxDeletes == 1

\* The n-th report_id the backend handed out; an opaque key.
ReportIds == 1..MaxReports

\* An entry of GET /api/v1/reports: identity and the fields fixed at assembly.
ReportSummary(id) == [report_id |-> id, title |-> levelLabels[1], level |-> 1]

\* The store behind the report API: the ids it handed out and the reports it
\* holds, newest first.
StoreOf(ids) == [created |-> IF ids = <<>> THEN 0 ELSE ids[1], reports |-> ids]

\* create report: the new report gets a key never used before.
createReport(st) ==
    [created |-> st.created + 1, reports |-> <<st.created + 1>> \o st.reports]

\* list reports: the body of the answer.
listBody(st) == [reports |-> [i \in 1..Len(st.reports) |-> ReportSummary(st.reports[i])]]

Holds(st, id) == \E i \in 1..Len(st.reports) : st.reports[i] = id

\* delete report: the report with that key goes, nothing else changes.
dropReport(st, id) == [st EXCEPT !.reports = SelectSeq(@, LAMBDA r : r # id)]

\* listReports(20) and deleteReport(id) as requests on their way.
listReports == [phase |-> "sent", data |-> Null]
deleteReport(id) == [phase |-> "sent", id |-> id]

\* The backend answers a listReports request with what it holds then.
ServerLists(l) ==
    /\ route = "reports"
    /\ BagIn(l, loads)
    /\ l.phase = "sent"
    /\ loads' = (loads (-) SetToBag({l}))
                    (+) SetToBag({[phase |-> "answered", data |-> listBody(store)]})
    /\ UNCHANGED <<route, now, reportsVars, dataVars, healthVars, reports, store, deletes, removed>>

\* The backend deletes the report of a deleteReport request, if it holds it.
ServerDeletes(d) ==
    /\ route = "reports"
    /\ BagIn(d, deletes)
    /\ d.phase = "sent"
    /\ Holds(store, d.id)
    /\ store' = dropReport(store, d.id)
    /\ deletes' = (deletes (-) SetToBag({d})) (+) SetToBag({[d EXCEPT !.phase = "deleted"]})
    /\ UNCHANGED <<route, now, reportsVars, dataVars, healthVars, reports, loads, removed>>

\* A request is refused (404, 500), or it or its answer is lost or times out.
ListFails(l) ==
    /\ route = "reports"
    /\ BagIn(l, loads)
    /\ l.phase # "failed"
    /\ loads' = (loads (-) SetToBag({l})) (+) SetToBag({[phase |-> "failed", data |-> Null]})
    /\ UNCHANGED <<route, now, reportsVars, dataVars, healthVars, reports, store, deletes, removed>>

DeleteFails(d) ==
    /\ route = "reports"
    /\ BagIn(d, deletes)
    /\ d.phase # "failed"
    /\ deletes' = (deletes (-) SetToBag({d})) (+) SetToBag({[d EXCEPT !.phase = "failed"]})
    /\ UNCHANGED <<route, now, reportsVars, dataVars, healthVars, reports, store, loads, removed>>

\* loadReports from its await on: setReports(data.reports ?? []) in the try,
\* nothing in the catch, setLoadingReports(false) in the finally.
loadReportsResumed(prev, l) == IF l.phase = "answered" THEN l.data.reports ELSE prev

LoadReportsListed(l) ==
    /\ route = "reports"
    /\ BagIn(l, loads)
    /\ l.phase \in {"answered", "failed"}
    /\ reports' = loadReportsResumed(reports, l)
    /\ loads' = loads (-) SetToBag({l})
    /\ listLoads' = listLoads - 1
    /\ loadingReports' = FALSE
    /\ UNCHANGED <<dataVars, healthVars, route, now, store, deletes, removed,
                   level, format, includeTechnicals, includeSentiment,
                   includeCorrelations, generating, generatedContent, offline, llmProviders,
                   selectedLLMProvider, selectedLLMModel, request, providerLoad>>

\* The Delete button of a listed report: handleDelete(r.report_id) up to its await.
handleDelete(id) ==
    /\ route = "reports"
    /\ \E i \in 1..Len(reports) : reports[i].report_id = id
    /\ BagCardinality(deletes) < MaxDeletes
    /\ deletes' = deletes (+) SetToBag({deleteReport(id)})
    /\ UNCHANGED <<route, now, reportsVars, dataVars, healthVars, reports, store, loads, removed>>

\* prev.filter((r) => r.report_id !== id)
withoutReport_Head(prev, id) == IF prev = <<>> THEN prev ELSE Tail(prev)
withoutReport(prev, id) == SelectSeq(prev, LAMBDA r : r.report_id # id)

\* handleDelete from its await on: the functional setReports in the try, a
\* silent catch.
handleDeleteResumed(prev, d) == IF d.phase = "deleted" THEN withoutReport(prev, d.id) ELSE prev

handleDeleteSettled(d) ==
    /\ route = "reports"
    /\ BagIn(d, deletes)
    /\ d.phase \in {"deleted", "failed"}
    /\ reports' = handleDeleteResumed(reports, d)
    /\ deletes' = deletes (-) SetToBag({d})
    /\ removed' = IF d.phase = "deleted" THEN removed \cup {d.id} ELSE removed
    /\ UNCHANGED <<route, now, reportsVars, dataVars, healthVars, store, loads>>

\* handleGenerate from its await on, with the list: an answered generation has
\* stored a report, and the try calls loadReports().
GenerateSettledListed(resp) ==
    /\ GenerateResumed(resp)
    /\ IF TryThrows(resp)
       THEN UNCHANGED <<store, loads>>
       ELSE /\ store.created < MaxReports
            /\ store' = createReport(store)
            /\ loads' = loads (+) SetToBag({listReports})
    /\ UNCHANGED <<reports, deletes, removed>>

\* The page mounts over a backend that holds nothing or two reports.
InitList ==
    /\ route = "reports" /\ now = 0
    /\ InitReports
    /\ reports = <<>>
    /\ store \in {StoreOf(<<>>), StoreOf(<<2, 1>>)}
    /\ loads = SetToBag({listReports})
    /\ deletes = EmptyBag /\ removed = {}
    /\ DataUnmounted /\ HealthUnmounted

NextList ==
    \/ HandleGenerate
    \/ generating /\ \E resp \in GenerateResponses(request) : GenerateSettledListed(resp)
    \/ \E l \in BagToSet(loads) : ServerLists(l)
    \/ \E l \in BagToSet(loads) : ListFails(l)
    \/ \E l \in BagToSet(loads) : LoadReportsListed(l)
    \/ \E id \in ReportIds : handleDelete(id)
    \/ \E d \in BagToSet(deletes) : ServerDeletes(d)
    \/ \E d \in BagToSet(deletes) : DeleteFails(d)
    \/ \E d \in BagToSet(deletes) : handleDeleteSettled(d)

SpecList == InitList /\ [][NextList]_vars

\* A deleteReport request of the page settles in this step.
DeleteSettlesHere(d) ==
    /\ CopiesIn(d, deletes') < CopiesIn(d, deletes)
    /\ BagCardinality(deletes') < BagCardinality(deletes)

\* C25: deleting a report changes only that report.  When deleteReport(id)
\* succeeded, the list after handleDelete is the list before it without the
\* entries of that report_id, the others unchanged and in their order; when
\* it failed the list is unchanged.
C25_DeleteChangesOnlyThatReport ==
    [][\A d \in BagToSet(deletes) :
          DeleteSettlesHere(d) =>
             IF d.phase = "deleted"
             THEN /\ reports' = SelectSeq(reports, LAMBDA r : r.report_id # d.id)
                  /\ \A i \in 1..Len(reports') : reports'[i].report_id # d.id
             ELSE reports' = reports]_vars

\* No generation has happened, the only load there ever was showed reports 2
\* and 1, and a delete of report 1 that succeeded left report 2.
C25_Witness ==
    /\ route = "reports" /\ store = [created |-> 2, reports |-> <<2>>]
    /\ loads = EmptyBag /\ deletes = EmptyBag /\ ~generating
    /\ reports = <<ReportSummary(2)>>

\* C26: a report that a successful delete removed from the list never
\* reappears in it: no entry of the list carries the report_id of a report
\* that handleDelete has filtered out, whatever list loads were in flight.
C26_DeletedNeverReappears ==
    \A i \in 1..Len(reports) : reports[i].report_id \notin removed

\* ============================================ Dashboard: the API status indicator
\* C27: the API status indicator reflects the latest check.  After each
\* completed refresh apiStatus is "online" if and only if the health request
\* of that refresh succeeded.
C27_ApiStatusReflectsLatestCheck ==
    [][DashboardSettled => (Dashboard'.apiStatus = "online" <=> answers.health # Null)]_vars

\* ================================================================ Health page
\* fetchHealth calls in flight at once (the mount, the 30 s timer, the button).
MaxChecks == 2

getHealthDetailed == Get("/health/detailed", Null)

\* What GET /health/detailed answers; Null: the request failed.  GET /health
\* answers HealthAnswers.
HealthDetailedAnswers ==
    {Null, [status |-> "healthy", services |-> "up"], [status |-> "degraded", services |-> "down"]}

\* The useState initial values of Health.
InitHealth == [health |-> Null, loading |-> TRUE, lastChecked |-> Null]

\* A fetchHealth call at its first await: the requests it has made so far and
\* those of them that failed.
Check == [requested |-> <<getHealthDetailed>>, rejected |-> <<>>]

\* fetchHealth up to its first await: setLoading(true), getHealthDetailed().
\* The setInterval callback and the Refresh button call it; they differ in
\* nothing the page keeps.
fetchHealth ==
    /\ route = "health"
    /\ BagCardinality(checks) < MaxChecks
    /\ Health' = [Health EXCEPT !.loading = TRUE]
    /\ checks' = checks (+) SetToBag({Check})
    /\ UNCHANGED <<route, now, reportsVars, dataVars, listVars, lastCheck>>

\* The inner catch: getHealthDetailed() rejected, getHealth() is awaited.
DetailedRejected(c) ==
    /\ route = "health"
    /\ BagIn(c, checks)
    /\ c.requested = <<getHealthDetailed>>
    /\ checks' = (checks (-) SetToBag({c}))
                     (+) SetToBag({[requested |-> Append(c.requested, getHealth),
                                    rejected |-> Append(c.rejected, getHealthDetailed)]})
    /\ UNCHANGED <<route, now, reportsVars, dataVars, listVars, Health, lastCheck>>

\* fetchHealth from its last await on: setHealth(data) in the try, or
\* setHealth(null) in the outer catch, then the finally block.
fetchHealthResumed_Kept(H, data, t) ==
    [health |-> IF data = Null THEN H.health ELSE data, loading |-> FALSE,
     lastChecked |-> Num(t)]
fetchHealthResumed(H, data, t) == [health |-> data, loading |-> FALSE, lastChecked |-> Num(t)]

\* The status handed to the StatusBadge of the API server card.
apiServerStatus(H) == IF H.health # Null THEN H.health.status ELSE "unhealthy"

\* The request a fetchHealth call awaits.
Awaited(c) == c.requested[Len(c.requested)]

\* The awaited request is answered and it is the last one of the call:
\* getHealthDetailed() resolved, or getHealth() resolved or rejected.
fetchHealthSettled(c, res) ==
    /\ route = "health"
    /\ BagIn(c, checks)
    /\ res \in IF Awaited(c) = getHealthDetailed THEN HealthDetailedAnswers \ {Null}
                                                ELSE HealthAnswers
    /\ Health' = fetchHealthResumed(Health, res, now)
    /\ checks' = checks (-) SetToBag({c})
    /\ lastCheck' = IF res = Null THEN [c EXCEPT !.rejected = Append(@, Awaited(c))] ELSE c
    /\ UNCHANGED <<route, now, reportsVars, dataVars, listVars>>

\* The Health page mounts: the effect calls fetchHealth() and arms the timer.
InitHealthPage ==
    /\ route = "health" /\ now = 0
    /\ ReportsUnmounted /\ DataUnmounted
    /\ Health = InitHealth
    /\ checks = SetToBag({Check})
    /\ lastCheck = Null

NextHealth ==
    \/ fetchHealth
    \/ \E c \in BagToSet(checks) : DetailedRejected(c)
    \/ \E c \in BagToSet(checks), res \in HealthDetailedAnswers \cup HealthAnswers :
          fetchHealthSettled(c, res)
    \/ Tick

SpecHealth == InitHealthPage /\ [][NextHealth]_vars

\* A fetchHealth call ends in this step.
CheckCompletes == BagCardinality(checks') < BagCardinality(checks)

\* The last request a call made was answered, not rejected.
Succeeded(c) == Len(c.rejected) < Len(c.requested)

Position(seq, x) == {i \in 1..Len(seq) : seq[i] = x}

\* C28: the Health page tries the detailed endpoint first and falls back to
\* the basic one.  A check requests getHealth only after its own
\* getHealthDetailed request failed; after each completed check health is
\* non-null if and only if one of the two requests succeeded (the badge
\* shows "unhealthy" otherwise), loading is false and lastChecked is the time
\* of the completion.
C28_DetailedFirstThenBasic ==
    /\ [](\A c \in BagToSet(checks) :
             /\ c.requested[1] = getHealthDetailed
             /\ \A i \in Position(c.requested, getHealth) :
                   /\ i = 2
                   /\ Position(c.rejected, getHealthDetailed) # {})
    /\ [][CheckCompletes =>
             /\ Health'.health # Null <=> Succeeded(lastCheck')
             /\ ~Succeeded(lastCheck') => apiServerStatus(Health') = "unhealthy"
             /\ ~Health'.loading
             /\ Health'.lastChecked = Num(now)]_vars

\* A check whose detailed request failed and whose basic request succeeded
\* has completed, a second later than the mount.
C28_Witness ==
    /\ route = "health" /\ checks = EmptyBag /\ now = 1
    /\ lastCheck # Null
    /\ lastCheck.requested = <<getHealthDetailed, getHealth>>
    /\ lastCheck.rejected = <<getHealthDetailed>>
    /\ Health = [health |-> [status |-> "healthy"], loading |-> FALSE, lastChecked |-> Num(1)]

====
